---- MODULE Spec2Model ----
(***************************************************************************)
(* pgmanager: a broker that leases a fixed pool of databases to clients    *)
(* connecting over a Unix stream socket (src/src/core.rs).                 *)
(*                                                                         *)
(* The model follows start_server from its first line: the construction    *)
(* tasks of build_databases, the path checks and the bind, the two-party   *)
(* barrier, the accept loop of server(), one session task per accepted     *)
(* connection (respond), and the clients at the other end of each          *)
(* connection.  Tasks are tokio tasks; every await point of the source is  *)
(* a separate step, code between two await points is one step, except      *)
(* inside the pool lock where the collection mutation and the counter      *)
(* update are separate steps.                                              *)
(***************************************************************************)
EXTENDS Integers, Naturals, Sequences, FiniteSets, TLC

\* ---- bounds of the model ------------------------------------------------
\* pool size (Config.max_databases)
NumDbs == 2
\* connection slots: at most this many connections exist at the same time;
\* a slot is reused once both ends of its connection are gone
MaxSessions == 2

\* ---- program constants --------------------------------------------------
\* Config.prefix as used by the tests
Prefix == "test_db_"
\* dbport fallback of DatabaseConfig::with_db
DefaultPort == 5432

Sessions == 1..MaxSessions
Indices == 0..(NumDbs - 1)
\* lock owner when the tokio Mutex is free
NoTask == 0
\* a session that holds no database / a client that read no message
None == [tag |-> "None"]

VARIABLES
    sockPath,    \* what is at the socket path: "absent", "dir", "file", "socket"
    parentDir,   \* parent directory: "exists", "missing", "blocked"
    mainPc,      \* position of the caller inside start_server
    buildPc,     \* position of each construction task of build_databases
    pool,        \* the VecDeque behind Arc<Mutex<..>>
    lock,        \* task holding the Mutex guard, NoTask when free
    barrier,     \* parties that have arrived at the Barrier::new(2)
    serverPc,    \* position of the accept-loop task spawned by start_server
    cancelled,   \* state of the CancellationToken
    recancelled, \* cancel() has been called on the already cancelled token
    pc,          \* position of the connection / session task of each slot
    held,        \* the `db` local of each session task
    conn,        \* client end of each connection: "none", "open", "closed"
    wire,        \* messages written by the session into the stream
    nread,       \* number of messages of `wire` the client has read
    usage,       \* stats::USAGE
    peak,        \* stats::PEAK_USAGE
    cmdPc,       \* position of wrap / wrap_each after start_server returned
    statuses,    \* ExitStatus of every subprocess that has exited, in order
    ignoreExit,  \* the ignore_exit_code argument of wrap_each
    exitCode,    \* the `exit_code: u8` local of wrap / wrap_each
    eachPool,    \* the `databases` local of wrap_each: the pool it iterates
    envs         \* environment given to every subprocess of wrap_each, in order

vars == <<sockPath, parentDir, mainPc, buildPc, pool, lock, barrier, serverPc,
          cancelled, recancelled, pc, held, conn, wire, nread, usage, peak,
          cmdPc, statuses, ignoreExit, exitCode, eachPool, envs>>

fsVars == <<sockPath, parentDir>>
startVars == <<mainPc, buildPc, barrier>>
cancelVars == <<cancelled, recancelled>>
clientVars == <<conn, nread>>
statVars == <<usage, peak>>
cmdVars == <<cmdPc, statuses, ignoreExit, exitCode, eachPool, envs>>

\* ---- data ---------------------------------------------------------------
\* format!("{}{}", prefix, n)
DbName(prefix, n) == prefix \o ToString(n)

\* DatabaseConfig::with_db with PGUSER=postgres, no PGPASSWORD, no PGPORT
WithDb(dbname) ==
    [dbuser |-> "postgres", dbpass |-> "", dbport |-> DefaultPort, dbname |-> dbname]

\* <DatabaseConfig as DbLike>::from_dbname
FromDbname(dbname) == WithDb(dbname)

\* <DatabaseConfig as DbLike>::create_config
CreateConfig(db) == db

\* Message::Ok(config) and Message::Empty(text)
MsgOk(config) == [tag |-> "Ok", config |-> config]
MsgEmpty(text) == [tag |-> "Empty", text |-> text]

\* the N databases build_databases constructs
Original == {FromDbname(DbName(Prefix, n)) : n \in Indices}

\* elements of a sequence
Range(seq) == {seq[i] : i \in 1..Len(seq)}

\* ---- initial state: start_server has just been called -------------------
\* the state start_server is entered in
StartInit ==
    /\ sockPath \in {"absent", "dir", "file"}
    /\ parentDir \in {"exists", "missing", "blocked"}
    /\ (parentDir # "exists" => sockPath = "absent")
    /\ mainPc = "build"
    /\ buildPc = [n \in Indices |-> "spawned"]
    /\ pool = <<>>
    /\ lock = NoTask
    /\ barrier = {}
    /\ serverPc = "none"
    /\ cancelled = FALSE
    /\ recancelled = FALSE
    /\ pc = [s \in Sessions |-> "idle"]
    /\ held = [s \in Sessions |-> None]
    /\ conn = [s \in Sessions |-> "none"]
    /\ wire = [s \in Sessions |-> <<>>]
    /\ nread = [s \in Sessions |-> 0]
    /\ usage = 0
    /\ peak = 0

\* start_server called by the holder of the token itself (serve, the tests):
\* no command is wrapped
Init ==
    /\ StartInit
    /\ cmdPc = "none"
    /\ statuses = <<>>
    /\ ignoreExit = FALSE
    /\ exitCode = 0
    /\ eachPool = <<>>
    /\ envs = <<>>

\* ---- build_databases ----------------------------------------------------
\* one spawned construction task: from_dbname, lock, push_back, unlock
BuildTask(n) ==
    /\ mainPc = "build"
    /\ buildPc[n] = "spawned"
    /\ lock = NoTask
    /\ pool' = Append(pool, FromDbname(DbName(Prefix, n)))
    /\ buildPc' = [buildPc EXCEPT ![n] = "done"]
    /\ UNCHANGED <<fsVars, mainPc, lock, barrier, serverPc, cancelVars, pc, held,
                   clientVars, wire, statVars, cmdVars>>

\* a build that returns as soon as one construction task is over
BuildJoinedAny ==
    /\ mainPc = "build"
    /\ \E n \in Indices : buildPc[n] = "done"
    /\ mainPc' = "bind"
    /\ UNCHANGED <<fsVars, buildPc, pool, lock, barrier, serverPc, cancelVars, pc,
                   held, clientVars, wire, statVars, cmdVars>>

\* `for task in tasks { task.await.unwrap() }` has joined every task
BuildJoined ==
    /\ mainPc = "build"
    /\ \A n \in Indices : buildPc[n] = "done"
    /\ mainPc' = "bind"
    /\ UNCHANGED <<fsVars, buildPc, pool, lock, barrier, serverPc, cancelVars, pc,
                   held, clientVars, wire, statVars, cmdVars>>

\* ---- start_server: path checks, bind, spawn -----------------------------
\* a bind that takes over a path that already exists
StartPanicsUnlessFile ==
    \/ sockPath = "dir"
    \/ parentDir = "blocked"

\* is_dir panics; create_dir_all(..).unwrap() panics; bind(..).unwrap() panics
StartPanics ==
    \/ sockPath = "dir"
    \/ parentDir = "blocked"
    \/ sockPath = "file"

StartBind ==
    /\ mainPc = "bind"
    /\ IF StartPanics
       THEN /\ mainPc' = "panicked"
            /\ UNCHANGED <<fsVars, serverPc>>
       ELSE /\ parentDir' = "exists"
            /\ sockPath' = "socket"
            /\ serverPc' = "barrier"
            /\ mainPc' = "barrier"
    /\ UNCHANGED <<buildPc, pool, lock, barrier, cancelVars, pc, held, clientVars,
                   wire, statVars, cmdVars>>

\* ---- the Barrier::new(2) ------------------------------------------------
Parties == {"main", "server"}

\* barrier.wait() of start_server: arrive
MainArrive ==
    /\ mainPc = "barrier"
    /\ barrier' = barrier \cup {"main"}
    /\ mainPc' = "waiting"
    /\ UNCHANGED <<fsVars, buildPc, pool, lock, serverPc, cancelVars, pc, held,
                   clientVars, wire, statVars, cmdVars>>

\* a start_server that does not wait for the accept-loop task
MainReturnsAlone ==
    /\ mainPc = "waiting"
    /\ mainPc' = "returned"
    /\ UNCHANGED <<fsVars, buildPc, pool, lock, barrier, serverPc, cancelVars, pc,
                   held, clientVars, wire, statVars, cmdVars>>

\* barrier.wait() of start_server completes; start_server returns
MainReturn ==
    /\ mainPc = "waiting"
    /\ barrier = Parties
    /\ mainPc' = "returned"
    /\ UNCHANGED <<fsVars, buildPc, pool, lock, barrier, serverPc, cancelVars, pc,
                   held, clientVars, wire, statVars, cmdVars>>

\* barrier.wait() of server(): arrive
ServerArrive ==
    /\ serverPc = "barrier"
    /\ barrier' = barrier \cup {"server"}
    /\ serverPc' = "waiting"
    /\ UNCHANGED <<fsVars, mainPc, buildPc, pool, lock, cancelVars, pc, held,
                   clientVars, wire, statVars, cmdVars>>

\* barrier.wait() of server() completes; the loop is entered
ServerEnterLoop ==
    /\ serverPc = "waiting"
    /\ barrier = Parties
    /\ serverPc' = "accepting"
    /\ UNCHANGED <<fsVars, startVars, pool, lock, cancelVars, pc, held, clientVars,
                   wire, statVars, cmdVars>>

\* ---- the owner of the token ---------------------------------------------
\* cancellation_token.cancel(): only the caller of start_server has the token
Cancel ==
    /\ mainPc = "returned"
    /\ cancelled' = TRUE
    /\ recancelled' = (cancelled \/ recancelled)
    /\ UNCHANGED <<fsVars, startVars, pool, lock, serverPc, pc, held, clientVars,
                   wire, statVars, cmdVars>>

\* ---- server(): the accept loop ------------------------------------------
\* the listener exists from bind until server() returns
Listening == serverPc \in {"barrier", "waiting", "accepting"}

\* a loop that runs the session inline and accepts again when it is over
ServerAcceptInline(s) ==
    /\ serverPc = "accepting"
    /\ pc[s] = "pending"
    /\ \A t \in Sessions : pc[t] \in {"idle", "pending", "done"}
    /\ pc' = [pc EXCEPT ![s] = "lock"]
    /\ UNCHANGED <<fsVars, startVars, pool, lock, serverPc, cancelVars, held,
                   clientVars, wire, statVars, cmdVars>>

\* select! arm listener.accept() => Ok: respond() spawns the session task
ServerAccept(s) ==
    /\ serverPc = "accepting"
    /\ pc[s] = "pending"
    /\ pc' = [pc EXCEPT ![s] = "lock"]
    /\ UNCHANGED <<fsVars, startVars, pool, lock, serverPc, cancelVars, held,
                   clientVars, wire, statVars, cmdVars>>

\* a loop that looks at the token only when no connection is waiting
ServerCancelledWhenIdle ==
    /\ serverPc = "accepting"
    /\ cancelled
    /\ \A s \in Sessions : pc[s] # "pending"
    /\ serverPc' = "stopped"
    /\ UNCHANGED <<fsVars, startVars, pool, lock, cancelVars, pc, held, clientVars,
                   wire, statVars, cmdVars>>

\* select! arm cancellation_token.cancelled() => break; server() returns
ServerCancelled ==
    /\ serverPc = "accepting"
    /\ cancelled
    /\ serverPc' = "stopped"
    /\ UNCHANGED <<fsVars, startVars, pool, lock, cancelVars, pc, held, clientVars,
                   wire, statVars, cmdVars>>

\* a task that finishes and leaves the socket file behind
ServerKeepsFile ==
    /\ serverPc = "stopped"
    /\ serverPc' = "finished"
    /\ UNCHANGED <<fsVars, startVars, pool, lock, cancelVars, pc, held, clientVars,
                   wire, statVars, cmdVars>>

\* the spawned task after server() returned: remove_file, task finishes
ServerRemoveFile ==
    /\ serverPc = "stopped"
    /\ sockPath' = "absent"
    /\ serverPc' = "finished"
    /\ UNCHANGED <<parentDir, startVars, pool, lock, cancelVars, pc, held, clientVars,
                   wire, statVars, cmdVars>>

\* ---- respond(): one session task per accepted connection ----------------
\* a pop that returns the back element
PopBackItem(q) == q[Len(q)]

\* a pop that leaves the element in the collection
PopKeepsAll(q) == q

\* VecDeque::pop_front: the element returned and the collection left
PopFrontItem(q) == Head(q)
PopFrontRest(q) == Tail(q)

\* VecDeque::push_back
PushBack(q, db) == Append(q, db)

\* a slot whose connection is gone at both ends is free for a new connection
FreeSlot(s) ==
    /\ pc' = [pc EXCEPT ![s] = "idle"]
    /\ conn' = [conn EXCEPT ![s] = "none"]
    /\ wire' = [wire EXCEPT ![s] = <<>>]
    /\ nread' = [nread EXCEPT ![s] = 0]

\* the session task returns: its stream is dropped
SessionEnds(s) ==
    IF conn[s] = "closed"
    THEN FreeSlot(s)
    ELSE /\ pc' = [pc EXCEPT ![s] = "done"]
         /\ UNCHANGED <<clientVars, wire>>

\* a poll that goes to sleep without dropping the guard
TryAcquireKeepsGuard(s) ==
    /\ pc[s] = "lock"
    /\ lock = NoTask
    /\ lock' = s
    /\ IF pool # <<>>
       THEN /\ held' = [held EXCEPT ![s] = PopFrontItem(pool)]
            /\ pool' = PopFrontRest(pool)
            /\ pc' = [pc EXCEPT ![s] = "inc"]
       ELSE /\ pc' = [pc EXCEPT ![s] = "sleep"]
            /\ UNCHANGED <<held, pool>>
    /\ UNCHANGED <<fsVars, startVars, serverPc, cancelVars, clientVars, wire,
                   statVars, cmdVars>>

\* a poll that looks at the pool and goes back to sleep without taking
TryAcquireNeverTakes(s) ==
    /\ pc[s] = "lock"
    /\ lock = NoTask
    /\ pc' = [pc EXCEPT ![s] = "sleep"]
    /\ UNCHANGED <<fsVars, startVars, pool, lock, held, serverPc, cancelVars,
                   clientVars, wire, statVars, cmdVars>>

\* databases.lock().await; dbs.pop_front(): Some(name) keeps the guard for
\* increment_usage, None drops the guard and goes to sleep
TryAcquire(s) ==
    /\ pc[s] = "lock"
    /\ lock = NoTask
    /\ IF pool # <<>>
       THEN /\ held' = [held EXCEPT ![s] = PopFrontItem(pool)]
            /\ pool' = PopFrontRest(pool)
            /\ lock' = s
            /\ pc' = [pc EXCEPT ![s] = "inc"]
       ELSE /\ pc' = [pc EXCEPT ![s] = "sleep"]
            /\ UNCHANGED <<held, pool, lock>>
    /\ UNCHANGED <<fsVars, startVars, serverPc, cancelVars, clientVars, wire,
                   statVars, cmdVars>>

\* an increment that compares the value before the addition with the peak
IncrementUsageStale ==
    /\ usage' = usage + 1
    /\ peak' = IF usage > peak THEN usage ELSE peak

\* stats::increment_usage: fetch_add, load PEAK_USAGE, store if higher
IncrementUsage ==
    /\ usage' = usage + 1
    /\ peak' = IF usage + 1 > peak THEN usage + 1 ELSE peak

\* stats::increment_usage(); break name; the guard is dropped
Inc(s) ==
    /\ pc[s] = "inc"
    /\ lock = s
    /\ IncrementUsage
    /\ lock' = NoTask
    /\ pc' = [pc EXCEPT ![s] = "write"]
    /\ UNCHANGED <<fsVars, startVars, pool, serverPc, cancelVars, held, clientVars,
                   wire, cmdVars>>

\* a sleep that is never woken
SleepNeverWakes(s) ==
    /\ pc[s] = "sleep"
    /\ UNCHANGED vars

\* tokio::time::sleep(10ms) has elapsed; next iteration of the loop.
\* (TOTAL_WAIT, a counter only log_usage reads, is not part of the state.)
Sleep(s) ==
    /\ pc[s] = "sleep"
    /\ pc' = [pc EXCEPT ![s] = "lock"]
    /\ UNCHANGED <<fsVars, startVars, pool, lock, serverPc, cancelVars, held,
                   clientVars, wire, statVars, cmdVars>>

\* a broker that answers with the Empty variant
ResponseEmpty(db) == MsgEmpty("No databases available")

\* the message respond() builds for the database it holds
Response(db) == MsgOk(CreateConfig(db))

\* stream.write_all(message): EPIPE when the peer has closed, logged only;
\* stream.flush() of a UnixStream does nothing
Write(s) ==
    /\ pc[s] = "write"
    /\ wire' = IF conn[s] = "open"
               THEN [wire EXCEPT ![s] = Append(@, Response(held[s]))]
               ELSE wire
    /\ pc' = [pc EXCEPT ![s] = "read"]
    /\ UNCHANGED <<fsVars, startVars, pool, lock, serverPc, cancelVars, held,
                   clientVars, statVars, cmdVars>>

\* what stream.read returns once the client has closed without having sent
\* bytes: closing with the broker's message unread resets the connection
\* (ECONNRESET), otherwise the read sees end-of-stream
AfterClose(s) == IF nread[s] < Len(wire[s]) THEN "reset" ELSE "eof"

\* a release on every successful read, `if let Ok(_)`
ReleasesOnAnyOk(result) == result \in {"eof", "data"}

\* `if let Ok(0) = stream.read(..)`: only end-of-stream leads to the release
ReleasesOn(result) == result = "eof"

\* what follows the read: Ok(0) goes on to release; Ok(n>0) and Err(_) fall
\* out of the `if let`, the task ends and `db` is dropped
AfterRead(s, result) ==
    IF ReleasesOn(result)
    THEN /\ pc' = [pc EXCEPT ![s] = "relock"]
         /\ UNCHANGED <<held, clientVars, wire>>
    ELSE /\ held' = [held EXCEPT ![s] = None]
         /\ SessionEnds(s)

\* stream.read(&mut buffer).await returns because the client has closed
ReadClosed(s) ==
    /\ pc[s] = "read"
    /\ conn[s] = "closed"
    /\ AfterRead(s, AfterClose(s))
    /\ UNCHANGED <<fsVars, startVars, pool, lock, serverPc, cancelVars, statVars,
                   cmdVars>>

\* stream.read(&mut buffer).await returns Ok(n), n > 0: bytes the client has
\* written into its stream (before closing it, when it is closed)
ReadData(s) ==
    /\ pc[s] = "read"
    /\ AfterRead(s, "data")
    /\ UNCHANGED <<fsVars, startVars, pool, lock, serverPc, cancelVars, statVars,
                   cmdVars>>

\* a release that drops the guard right after the push
ReleaseDropsGuard(s) ==
    /\ pc[s] = "relock"
    /\ lock = NoTask
    /\ pool' = PushBack(pool, held[s])
    /\ held' = [held EXCEPT ![s] = None]
    /\ pc' = [pc EXCEPT ![s] = "dec"]
    /\ UNCHANGED <<fsVars, startVars, lock, serverPc, cancelVars, clientVars, wire,
                   statVars, cmdVars>>

\* databases.lock().await; dbs.push_back(db): `db` moves into the pool
Release(s) ==
    /\ pc[s] = "relock"
    /\ lock = NoTask
    /\ lock' = s
    /\ pool' = PushBack(pool, held[s])
    /\ held' = [held EXCEPT ![s] = None]
    /\ pc' = [pc EXCEPT ![s] = "dec"]
    /\ UNCHANGED <<fsVars, startVars, serverPc, cancelVars, clientVars, wire,
                   statVars, cmdVars>>

\* AtomicUsize::fetch_sub(1) wraps below zero
UsizeMax == 2147483647
DecrementUsage == usage' = IF usage = 0 THEN UsizeMax ELSE usage - 1

\* stats::decrement_usage(); the guard is dropped and the task ends
Dec(s) ==
    /\ pc[s] = "dec"
    /\ lock = s
    /\ DecrementUsage
    /\ peak' = peak
    /\ lock' = NoTask
    /\ SessionEnds(s)
    /\ UNCHANGED <<fsVars, startVars, pool, serverPc, cancelVars, held, cmdVars>>

\* ---- clients ------------------------------------------------------------
\* UnixStream::connect(path): needs the bound listener; the connection waits
\* in the listen queue until the accept loop takes it
ClientConnect(s) ==
    /\ pc[s] = "idle"
    /\ Listening
    /\ conn' = [conn EXCEPT ![s] = "open"]
    /\ pc' = [pc EXCEPT ![s] = "pending"]
    /\ UNCHANGED <<fsVars, startVars, pool, lock, serverPc, cancelVars, held, wire,
                   nread, statVars, cmdVars>>

\* get_database_from_stream: stream.read returns the broker's message
ClientRecv(s) ==
    /\ conn[s] = "open"
    /\ nread[s] < Len(wire[s])
    /\ nread' = [nread EXCEPT ![s] = @ + 1]
    /\ UNCHANGED <<fsVars, startVars, pool, lock, serverPc, cancelVars, pc, held,
                   conn, wire, statVars, cmdVars>>

\* the client drops its stream (DatabaseGuard dropped, process exit)
ClientClose(s) ==
    /\ conn[s] = "open"
    /\ IF pc[s] = "done" \/ (pc[s] = "pending" /\ ~Listening)
       THEN FreeSlot(s)
       ELSE /\ conn' = [conn EXCEPT ![s] = "closed"]
            /\ UNCHANGED <<pc, wire, nread>>
    /\ UNCHANGED <<fsVars, startVars, pool, lock, serverPc, cancelVars, held,
                   statVars, cmdVars>>

\* ---- commands.rs: the subprocesses of wrap and wrap_each ----------------
\* std::process::ExitStatus on Unix: exited with a code, or ended by a signal
Exited(code) == [tag |-> "Exited", code |-> code]
Signaled == [tag |-> "Signaled"]
ExitStatuses == {Exited(0), Exited(1), Exited(255), Signaled}

\* Option<i32>
Some(v) == [tag |-> "Some", v |-> v]
UnwrapOr(opt, default) == IF opt = None THEN default ELSE opt.v

\* ExitStatus::code()
Code(status) == IF status.tag = "Exited" THEN Some(status.code) ELSE None

\* ExitStatus::success()
Success(status) == Code(status) = Some(0)

\* a subprocess without a code counted as a success
ExitCodeOrZero(status) == UnwrapOr(Code(status), 0)

\* status.code().unwrap_or(1), the value handed to try_into()
ExitCodeOf(status) == UnwrapOr(Code(status), 1)

\* the values of u8: try_into() fails on any other value and unwrap panics
U8 == 0..255

\* cancellation_token.cancel() by the command that owns the token
TokenCancel ==
    /\ cancelled' = TRUE
    /\ recancelled' = (cancelled \/ recancelled)

\* wrap: cmd.status() starts the subprocess once start_server has returned
WrapSpawn ==
    /\ cmdPc = "start"
    /\ mainPc = "returned"
    /\ cmdPc' = "running"
    /\ UNCHANGED <<fsVars, startVars, pool, lock, serverPc, cancelVars, pc, held,
                   clientVars, wire, statVars, statuses, ignoreExit, exitCode,
                   eachPool, envs>>

\* wrap: cmd.status().await returns; cancellation_token.cancel()
WrapExited(status) ==
    /\ cmdPc = "running"
    /\ statuses' = Append(statuses, status)
    /\ TokenCancel
    /\ cmdPc' = "joining"
    /\ UNCHANGED <<fsVars, startVars, pool, lock, serverPc, pc, held, clientVars,
                   wire, statVars, ignoreExit, exitCode, eachPool, envs>>

\* wrap: server.await returns; the exit code is computed and returned
WrapReturn ==
    /\ cmdPc = "joining"
    /\ serverPc = "finished"
    /\ ExitCodeOf(statuses[1]) \in U8
    /\ exitCode' = ExitCodeOf(statuses[1])
    /\ cmdPc' = "returned"
    /\ UNCHANGED <<fsVars, startVars, pool, lock, serverPc, cancelVars, pc, held,
                   clientVars, wire, statVars, statuses, ignoreExit, eachPool,
                   envs>>

\* a loop that goes on after a failed invocation
EachNeverStops(status) == FALSE

\* `if !ignore_exit_code && !status.success()`: the loop of wrap_each breaks
EachStops(status) == ~ignoreExit /\ ~Success(status)

\* cmd.env("PGDATABASE", db_name.db_name());
\* cmd.env("PGM_DATABASE_SHARD", n.to_string())
EnvOf(n, db) == [PGDATABASE |-> db.dbname, PGM_DATABASE_SHARD |-> ToString(n)]

\* wrap_each: one construction task of its own build_databases call, which
\* runs after start_server has returned and fills the pool the loop iterates
EachBuildTask(n) ==
    /\ cmdPc = "start"
    /\ mainPc = "returned"
    /\ FromDbname(DbName(Prefix, n)) \notin Range(eachPool)
    /\ eachPool' = Append(eachPool, FromDbname(DbName(Prefix, n)))
    /\ UNCHANGED <<fsVars, startVars, pool, lock, serverPc, cancelVars, pc, held,
                   clientVars, wire, statVars, cmdPc, statuses, ignoreExit,
                   exitCode, envs>>

\* wrap_each: the first cmd.status() of the loop, once start_server has
\* returned (the command is given PGDATABASE, the name of the n-th database,
\* and PGM_DATABASE_SHARD; with xarg the name is also its last argument)
EachSpawn ==
    /\ cmdPc = "start"
    /\ mainPc = "returned"
    /\ Len(eachPool) = NumDbs
    /\ cmdPc' = "running"
    /\ envs' = Append(envs, EnvOf(0, eachPool[1]))
    /\ UNCHANGED <<fsVars, startVars, pool, lock, serverPc, cancelVars, pc, held,
                   clientVars, wire, statVars, statuses, ignoreExit, exitCode,
                   eachPool>>

\* wrap_each: cmd.status().await returns.  On a failure that is not ignored
\* exit_code is set and the loop breaks; after the last database the loop
\* ends; both go on to cancellation_token.cancel().  Otherwise the next
\* iteration starts the next subprocess.
EachExited(status) ==
    /\ cmdPc = "running"
    /\ statuses' = Append(statuses, status)
    /\ IF EachStops(status)
       THEN /\ ExitCodeOf(status) \in U8
            /\ exitCode' = ExitCodeOf(status)
            /\ TokenCancel
            /\ cmdPc' = "joining"
       ELSE IF Len(statuses') = NumDbs
            THEN /\ TokenCancel
                 /\ cmdPc' = "joining"
                 /\ UNCHANGED exitCode
            ELSE UNCHANGED <<cancelVars, cmdPc, exitCode>>
    /\ envs' = IF cmdPc' = "running"
               THEN Append(envs, EnvOf(Len(statuses'), eachPool[Len(statuses') + 1]))
               ELSE envs
    /\ UNCHANGED <<fsVars, startVars, pool, lock, serverPc, pc, held, clientVars,
                   wire, statVars, ignoreExit, eachPool>>

\* wrap_each: server.await returns; ExitCode::from(exit_code)
EachReturn ==
    /\ cmdPc = "joining"
    /\ serverPc = "finished"
    /\ cmdPc' = "returned"
    /\ UNCHANGED <<fsVars, startVars, pool, lock, serverPc, cancelVars, pc, held,
                   clientVars, wire, statVars, statuses, ignoreExit, exitCode,
                   eachPool, envs>>

\* serve: ctrl_c().await returns Ok(()); cancellation_token.cancel()
ServeInterrupted ==
    /\ cmdPc = "start"
    /\ mainPc = "returned"
    /\ TokenCancel
    /\ cmdPc' = "joining"
    /\ UNCHANGED <<fsVars, startVars, pool, lock, serverPc, pc, held, clientVars,
                   wire, statVars, statuses, ignoreExit, exitCode,
                   eachPool, envs>>

\* serve: ctrl_c().await returns Err(err): the error is logged, serve returns
ServeSignalFails ==
    /\ cmdPc = "start"
    /\ mainPc = "returned"
    /\ cmdPc' = "returned"
    /\ UNCHANGED <<fsVars, startVars, pool, lock, serverPc, cancelVars, pc, held,
                   clientVars, wire, statVars, statuses, ignoreExit, exitCode,
                   eachPool, envs>>

\* serve: server.await returns; log_usage(); serve returns
ServeReturn ==
    /\ cmdPc = "joining"
    /\ serverPc = "finished"
    /\ cmdPc' = "returned"
    /\ UNCHANGED <<fsVars, startVars, pool, lock, serverPc, cancelVars, pc, held,
                   clientVars, wire, statVars, statuses, ignoreExit, exitCode,
                   eachPool, envs>>

ServeStep ==
    \/ ServeInterrupted
    \/ ServeSignalFails
    \/ ServeReturn

WrapStep ==
    \/ WrapSpawn
    \/ \E status \in ExitStatuses : WrapExited(status)
    \/ WrapReturn

\* ---- specification ------------------------------------------------------
BuildStep ==
    \/ \E n \in Indices : BuildTask(n)
    \/ BuildJoined

StartStep ==
    \/ StartBind
    \/ MainArrive
    \/ MainReturn

\* the steps of the spawned accept-loop task other than the two select! arms
ServerTaskStep ==
    \/ ServerArrive
    \/ ServerEnterLoop
    \/ ServerRemoveFile

\* the steps a session task takes on its own
SessionTaskStep(s) ==
    \/ TryAcquire(s)
    \/ Inc(s)
    \/ Sleep(s)
    \/ Write(s)
    \/ ReadClosed(s)
    \/ Release(s)
    \/ Dec(s)

\* the two steps that wait for the pool lock
LockStep(s) ==
    \/ TryAcquire(s)
    \/ Release(s)

ClientStep(s) ==
    \/ ClientConnect(s)
    \/ ClientRecv(s)
    \/ ClientClose(s)

Next ==
    \/ BuildStep
    \/ StartStep
    \/ ServerTaskStep
    \/ ServerCancelled
    \/ Cancel
    \/ \E s \in Sessions : ServerAccept(s)
    \/ \E s \in Sessions : SessionTaskStep(s)
    \/ \E s \in Sessions : ReadData(s)
    \/ \E s \in Sessions : ClientStep(s)

Spec == Init /\ [][Next]_vars

\* start_server called by serve
ServeInit ==
    /\ StartInit
    /\ cmdPc = "start"
    /\ statuses = <<>>
    /\ ignoreExit = FALSE
    /\ exitCode = 0
    /\ eachPool = <<>>
    /\ envs = <<>>

\* the broker under serve: only serve cancels the token
ServeNext ==
    \/ BuildStep
    \/ StartStep
    \/ ServerTaskStep
    \/ ServerCancelled
    \/ ServeStep
    \/ \E s \in Sessions : ServerAccept(s)
    \/ \E s \in Sessions : SessionTaskStep(s)
    \/ \E s \in Sessions : ReadData(s)
    \/ \E s \in Sessions : ClientStep(s)

ServeSpec == ServeInit /\ [][ServeNext]_vars

\* start_server called by wrap
WrapInit ==
    /\ StartInit
    /\ cmdPc = "start"
    /\ statuses = <<>>
    /\ ignoreExit = FALSE
    /\ exitCode = 0
    /\ eachPool = <<>>
    /\ envs = <<>>

\* the broker under wrap: only wrap cancels the token; the subprocess and
\* whatever it starts are the clients
WrapNext ==
    \/ BuildStep
    \/ StartStep
    \/ ServerTaskStep
    \/ ServerCancelled
    \/ WrapStep
    \/ \E s \in Sessions : ServerAccept(s)
    \/ \E s \in Sessions : SessionTaskStep(s)
    \/ \E s \in Sessions : ReadData(s)
    \/ \E s \in Sessions : ClientStep(s)

WrapSpec == WrapInit /\ [][WrapNext]_vars

\* start_server called by wrap_each, with either value of ignore_exit_code
WrapEachInit ==
    /\ StartInit
    /\ cmdPc = "start"
    /\ statuses = <<>>
    /\ ignoreExit \in BOOLEAN
    /\ exitCode = 0
    /\ eachPool = <<>>
    /\ envs = <<>>

EachStep ==
    \/ \E n \in Indices : EachBuildTask(n)
    \/ EachSpawn
    \/ \E status \in ExitStatuses : EachExited(status)
    \/ EachReturn

\* the broker under wrap_each: its commands are handed a database name, not
\* the socket path, so no client connects
WrapEachNext ==
    \/ BuildStep
    \/ StartStep
    \/ ServerTaskStep
    \/ ServerCancelled
    \/ EachStep

WrapEachSpec == WrapEachInit /\ [][WrapEachNext]_vars

\* Scheduling the code can rely on: the tokio runtime polls every task that
\* is ready (weak fairness of the steps of each task), the tokio Mutex hands
\* the lock to its waiters in FIFO order (strong fairness of the two lock
\* acquisitions), and select! polls its arms in random order (weak fairness
\* of each arm).  Clients and the owner of the token are under no obligation.
Fairness ==
    /\ WF_vars(BuildStep)
    /\ WF_vars(StartStep)
    /\ WF_vars(ServerTaskStep)
    /\ WF_vars(ServerCancelled)
    /\ \A s \in Sessions :
         /\ WF_vars(ServerAccept(s))
         /\ WF_vars(SessionTaskStep(s))
         /\ SF_vars(LockStep(s))

\* the broker under fair scheduling
FairSpec == Spec /\ Fairness

TypeOK ==
    /\ sockPath \in {"absent", "dir", "file", "socket"}
    /\ parentDir \in {"exists", "missing", "blocked"}
    /\ mainPc \in {"build", "bind", "barrier", "waiting", "returned", "panicked"}
    /\ serverPc \in {"none", "barrier", "waiting", "accepting", "stopped", "finished"}
    /\ lock \in {NoTask} \cup Sessions
    /\ barrier \subseteq Parties
    /\ cancelled \in BOOLEAN
    /\ recancelled \in BOOLEAN
    /\ cmdPc \in {"none", "start", "running", "joining", "returned"}
    /\ \A i \in 1..Len(statuses) : statuses[i] \in ExitStatuses
    /\ ignoreExit \in BOOLEAN
    /\ exitCode \in U8
    /\ Range(eachPool) \subseteq Original
    /\ Len(envs) \in 0..NumDbs
    /\ \A s \in Sessions :
         /\ pc[s] \in {"idle", "pending", "lock", "inc", "sleep", "write", "read",
                       "relock", "dec", "done"}
         /\ conn[s] \in {"none", "open", "closed"}
         /\ nread[s] \in 0..Len(wire[s])

\* ---- vocabulary of the properties ---------------------------------------
\* databases held by session tasks
Held == {held[s] : s \in {t \in Sessions : held[t] # None}}

\* the session polls the pool: it has taken no database yet
Waiting(s) == pc[s] \in {"lock", "sleep"}

\* the client has read the broker's message and keeps its stream: it owns a
\* DatabaseGuard
GuardAlive(s) == conn[s] = "open" /\ nread[s] = 1

\* the database described to the client of slot s
Described(s) == wire[s][1].config

\* build_databases has returned
Started == mainPc # "build"

\* ---- C1 -----------------------------------------------------------------
\* C1 (single owner): no database is held by two sessions, none is both in
\* the pool and held, and two clients that own a guard at the same time were
\* given different databases.
C1_SingleOwner ==
    /\ \A s, t \in Sessions : (s # t /\ held[s] # None) => held[s] # held[t]
    /\ \A s \in Sessions : held[s] # None => held[s] \notin Range(pool)
    /\ \A s, t \in Sessions :
         (s # t /\ GuardAlive(s) /\ GuardAlive(t)) => Described(s) # Described(t)

\* two sessions hold a database each and both clients own their guard
C1_Witness ==
    \E s, t \in Sessions :
        /\ s # t
        /\ held[s] # None /\ held[t] # None
        /\ GuardAlive(s) /\ GuardAlive(t)

\* ---- C2 -----------------------------------------------------------------
\* C2 (conservation): once the pool is built, the databases in the pool
\* together with those held by running sessions are exactly the N original
\* databases, each once, whatever the clients do.
C2_Conservation ==
    Started =>
        /\ Range(pool) \cup Held = Original
        /\ Len(pool) + Cardinality(Held) = NumDbs

\* ---- C3 -----------------------------------------------------------------
\* C3 (lease lasts as long as the connection): a database enters the pool
\* only by the step of the session that held it and has seen end-of-stream on
\* its closed connection; while a client owns a guard the database described
\* to it is neither in the pool nor held by another session.
C3_LeaseUntilEof ==
    [][ /\ \A r \in Original :
             (Started /\ r \notin Range(pool) /\ r \in Range(pool')) =>
                 \E s \in Sessions :
                     held[s] = r /\ pc[s] = "relock" /\ conn[s] = "closed"
        /\ \A s \in Sessions :
             GuardAlive(s)' =>
                 /\ Described(s)' \notin Range(pool')
                 /\ \A t \in Sessions : t # s => held'[t] # Described(s)'
      ]_vars

\* a client owns a guard for the database its session holds while another
\* session polls the empty pool
C3_Witness ==
    \E s, t \in Sessions :
        /\ GuardAlive(s) /\ pc[s] = "read" /\ held[s] = Described(s)
        /\ t # s /\ pc[t] = "sleep" /\ pool = <<>>

\* ---- C4 -----------------------------------------------------------------
\* C4 (release on disconnect): a session that acquired a database and whose
\* client has closed the connection gives the database up only by appending
\* it to the pool.
C4_ReleaseOnDisconnect ==
    [][ \A s \in Sessions :
            (held[s] # None /\ held'[s] = None /\ conn[s] = "closed") =>
                pool' = Append(pool, held[s])
      ]_vars

C7_Fifo ==
    [][ Started =>
          /\ Len(pool') < Len(pool) =>
                /\ pool' = Tail(pool)
                /\ \E s \in Sessions : held[s] = None /\ held'[s] = Head(pool)
          /\ Len(pool') > Len(pool) =>
                \E s \in Sessions : held[s] # None /\ pool' = Append(pool, held[s])
          /\ Len(pool') = Len(pool) => pool' = pool
      ]_vars

\* a session has just taken the head of a pool that held a database released
\* before: the pool is no longer in its initial order
C7_Witness ==
    \E s \in Sessions :
        /\ pc[s] = "inc"
        /\ Len(pool) = 1
        /\ held[s].dbname = DbName(Prefix, 1)
        /\ usage = 0 /\ peak = 2

\* ---- C9 -----------------------------------------------------------------
\* C9 (clean shutdown): when the accept-loop task has finished, cancellation
\* was triggered, the socket file is gone, and no connection is accepted or
\* made any more; the task never finishes while the file exists.
C9_CleanShutdown ==
    [][ /\ serverPc' = "finished" => (cancelled' /\ sockPath' = "absent")
        /\ serverPc = "finished" =>
              /\ serverPc' = "finished"
              /\ \A s \in Sessions :
                    pc[s] \in {"idle", "pending"} => pc'[s] \in {"idle", "pending"}
              /\ \A s \in Sessions : pc[s] = "idle" => pc'[s] = "idle"
      ]_vars

\* the task has finished while a connection was never accepted and a session
\* still holds a database
C9_Witness ==
    /\ serverPc = "finished"
    /\ sockPath = "absent"
    /\ \E s, t \in Sessions : pc[s] = "pending" /\ pc[t] = "read"

\* ---- C6 -----------------------------------------------------------------
\* a session polls the empty pool while a holder has seen its client's
\* end-of-stream and is about to release
ReleaseWithWaiter ==
    /\ pool = <<>>
    /\ \E t \in Sessions : Waiting(t)
    /\ \E h \in Sessions : pc[h] = "relock"

\* the session holds a database and its response has reached the stream
Responded(s) == held[s] # None /\ pc[s] = "read" /\ Len(wire[s]) = 1

Accepted(s) == pc[s] \notin {"idle", "pending"}

\* C8 as claimed: start_server returns only when the socket is bound and the
\* accept-loop task has passed the barrier and is accepting; a connection
\* made after the return and before cancellation is eventually accepted.
C8_ReadyOnReturn ==
    /\ [][ (mainPc # "returned" /\ mainPc' = "returned") =>
               (sockPath' = "socket" /\ serverPc' = "accepting") ]_vars
    /\ \A s \in Sessions :
         (pc[s] = "pending" /\ mainPc = "returned" /\ ~cancelled) ~> Accepted(s)

\* C8 (startup readiness), amended: start_server returns only when the socket
\* is bound and the accept-loop task runs and has arrived at the barrier (it
\* may not have resumed from it yet); a connection waiting after the return
\* is eventually accepted and given a session, unless cancellation is
\* triggered before the accept loop has taken it.
C8_BoundOnReturn ==
    /\ [][ (mainPc # "returned" /\ mainPc' = "returned") =>
               /\ sockPath' = "socket"
               /\ "server" \in barrier'
               /\ serverPc' \in {"waiting", "accepting"} ]_vars
    /\ \A s \in Sessions :
         (pc[s] = "pending" /\ mainPc = "returned") ~> (Accepted(s) \/ cancelled)

\* start_server has returned, no cancellation, and a connection made after
\* the return has its session
C8_Witness ==
    /\ mainPc = "returned"
    /\ ~cancelled
    /\ serverPc = "accepting"
    /\ \E s, t \in Sessions : pc[s] = "write" /\ pc[t] = "pending"

\* ---- C10 ----------------------------------------------------------------
\* C10 (cancellation is always observed): once the token is cancelled the
\* accept-loop task eventually finishes, whatever connections wait and
\* whatever sessions poll; the token stays cancelled, and cancelling it again
\* changes nothing else.
C10_CancelObserved ==
    /\ cancelled ~> (serverPc = "finished")
    /\ [][ cancelled =>
              /\ cancelled'
              /\ (recancelled' # recancelled =>
                    UNCHANGED <<fsVars, startVars, pool, lock, serverPc, pc, held,
                                clientVars, wire, statVars, cmdVars>>) ]_vars

\* the task finished after two cancellations while a connection waited and a
\* session polled the empty pool
C10_Witness ==
    /\ serverPc = "finished"
    /\ recancelled
    /\ \E s, t \in Sessions : pc[s] = "pending" /\ pc[t] = "sleep"

\* ---- C11 ----------------------------------------------------------------
\* server() has returned: the accept loop is over
LoopOver == serverPc \in {"stopped", "finished"}

\* C11 (sessions outlive the shutdown): the steps that end the accept loop
\* and remove the socket file touch no session; after them a session that
\* took a database still writes its response, a waiting session still takes
\* a database that is in the pool, and a session whose client has
\* disconnected gives its database up only by returning it to the pool.
C11_SessionsOutlive ==
    /\ [][ (serverPc' # serverPc /\ serverPc' \in {"stopped", "finished"}) =>
               UNCHANGED <<pool, lock, pc, held, clientVars, wire, statVars>> ]_vars
    /\ \A s \in Sessions : (LoopOver /\ pc[s] = "inc") ~> (pc[s] = "read")
    /\ (LoopOver /\ pool # <<>> /\ \E s \in Sessions : Waiting(s))
           ~> (\E s \in Sessions : pc[s] = "inc")
    /\ [][ \A s \in Sessions :
              (LoopOver /\ held[s] # None /\ conn[s] = "closed" /\ held'[s] = None)
                  => pool' = Append(pool, held[s]) ]_vars

\* ---- C12 ----------------------------------------------------------------
\* C12 (fatal startup errors leave nothing behind): when the socket path is
\* a directory, the parent directory cannot be created or the path is taken
\* so that bind fails, start_server panics there: no accept-loop task is
\* spawned, the path and its parent are left as they were, no connection is
\* ever made, and start_server never returns.
C12_NothingLeftBehind ==
    /\ [][ (mainPc = "bind"
               /\ (sockPath \in {"dir", "file"} \/ parentDir = "blocked")) =>
               (mainPc' = "panicked" /\ serverPc' = "none" /\ UNCHANGED fsVars) ]_vars
    /\ [][ mainPc = "panicked" =>
               (mainPc' = "panicked" /\ serverPc' = "none" /\ UNCHANGED fsVars) ]_vars
    /\ [](mainPc = "panicked" =>
               /\ serverPc = "none"
               /\ sockPath # "socket"
               /\ barrier = {}
               /\ \A s \in Sessions : pc[s] = "idle" /\ conn[s] = "none")

\* start_server has panicked on a path taken by a file, after the pool was
\* built
C12_Witness ==
    /\ mainPc = "panicked"
    /\ sockPath = "file"
    /\ Len(pool) = NumDbs

\* ---- C13 ----------------------------------------------------------------
\* the session holds a database and its write failed: nothing is in the
\* stream and the session is at its read
WriteFailed(s) == pc[s] = "read" /\ wire[s] = <<>> /\ held[s] # None

\* C13 (a failed write does not prevent the release): the failing write
\* changes nothing but the session's own position; the session then waits
\* at its read keeping the database until it goes on to release it, and the
\* database is eventually back in the pool.
C13_WriteFailureReleases ==
    /\ [][ \A s \in Sessions :
              (pc[s] = "write" /\ pc'[s] = "read" /\ wire'[s] = <<>>) =>
                  /\ UNCHANGED <<fsVars, startVars, pool, lock, serverPc, held>>
                  /\ \A t \in Sessions \ {s} : pc'[t] = pc[t] /\ wire'[t] = wire[t]
          ]_vars
    /\ [][ \A s \in Sessions :
              WriteFailed(s) => (pc'[s] \in {"read", "relock"} /\ held'[s] = held[s])
          ]_vars
    /\ \A s \in Sessions : \A r \in Original :
          (WriteFailed(s) /\ held[s] = r) ~> (r \in Range(pool))

\* ---- C14 ----------------------------------------------------------------
\* the pool in increasing index order
InOrder == [i \in 1..NumDbs |-> FromDbname(DbName(Prefix, i - 1))]

\* C14 (initial pool contents and order): when build_databases returns the
\* pool holds the N databases named prefix0 .. prefix(N-1) in increasing
\* index order, and the first leases follow that order.
C14_InitialOrder ==
    /\ [](mainPc = "bind" => pool = InOrder)
    /\ [][ \A s \in Sessions :
              (held[s] = None /\ held'[s] # None /\ usage = peak /\ peak < NumDbs)
                  => held'[s].dbname = DbName(Prefix, peak) ]_vars

\* ---- C15 ----------------------------------------------------------------
\* the code a subprocess reported, 1 when it reported none
Reported(status) == IF status.tag = "Exited" THEN status.code ELSE 1

\* C15 (wrap ordering and exit code): wrap starts its subprocess only after
\* start_server has returned, with the socket bound and listening; the token
\* is cancelled only by the step in which the subprocess is seen to have
\* exited; wrap returns only after the accept-loop task has finished and the
\* socket file is removed, and returns the subprocess's exit code, or 1 when
\* the subprocess reports none.
C15_WrapOrdering ==
    /\ [][ (cmdPc = "start" /\ cmdPc' = "running") =>
               (mainPc = "returned" /\ sockPath = "socket" /\ Listening
                /\ ~cancelled /\ statuses = <<>>) ]_vars
    /\ [](cmdPc # "start" => mainPc = "returned")
    /\ [][ (~cancelled /\ cancelled') =>
               (cmdPc = "running" /\ Len(statuses) = 0 /\ Len(statuses') = 1) ]_vars
    /\ [](cancelled => Len(statuses) = 1)
    /\ [][ (cmdPc # "returned" /\ cmdPc' = "returned") =>
               /\ cancelled
               /\ serverPc = "finished"
               /\ sockPath = "absent"
               /\ exitCode' = Reported(statuses[1]) ]_vars
    /\ [](cmdPc = "returned" =>
               /\ serverPc = "finished" /\ sockPath = "absent"
               /\ exitCode = Reported(statuses[1]))

\* wrap has returned 1 for a subprocess ended by a signal, while a session
\* of a client it left behind still holds a database
C15_Witness ==
    /\ cmdPc = "returned"
    /\ statuses = <<Signaled>>
    /\ exitCode = 1
    /\ \E s \in Sessions : pc[s] = "read" /\ held[s] # None

\* ---- C16 ----------------------------------------------------------------
\* the invocations that failed
FailedRuns == {i \in 1..Len(statuses) : statuses[i] # Exited(0)}

\* C16 (wrap_each stops early): the command runs at most once per database,
\* one run at a time.  Unless exit codes are ignored, no run follows a
\* failed run and the value returned is the code of that run (1 when it has
\* none); when exit codes are ignored or no run fails, all N runs take place
\* and 0 is returned.  wrap_each returns only after the token is cancelled
\* and the accept-loop task has finished.
C16_EachEarlyStop ==
    /\ [](Len(statuses) <= NumDbs)
    /\ [][ Len(statuses') <= Len(statuses) + 1 ]_vars
    /\ [][ (~ignoreExit /\ FailedRuns # {}) =>
               (statuses' = statuses /\ cmdPc' # "running") ]_vars
    /\ [](cmdPc = "running" => (mainPc = "returned" /\ ~cancelled))
    /\ [](cmdPc \in {"joining", "returned"} =>
               /\ cancelled
               /\ IF ~ignoreExit /\ FailedRuns # {}
                  THEN /\ FailedRuns = {Len(statuses)}
                       /\ exitCode = Reported(statuses[Len(statuses)])
                  ELSE /\ Len(statuses) = NumDbs
                       /\ exitCode = 0)
    /\ [](cmdPc = "returned" => (cancelled /\ serverPc = "finished"))
    /\ [][ ignoreExit' = ignoreExit ]_vars

\* wrap_each has returned 255 after its first run failed with that code and
\* no other run took place
C16_Witness ==
    /\ cmdPc = "returned"
    /\ ~ignoreExit
    /\ statuses = <<Exited(255)>>
    /\ exitCode = 255
    /\ NumDbs > 1

\* ---- C17 ----------------------------------------------------------------
\* C17 (the accept loop never waits for a session): accepting a connection
\* changes nothing but the position of the new session, and the loop is
\* accepting again at once; while the loop is accepting, every waiting
\* connection can be accepted and a cancelled token can be seen, whatever
\* the pool holds and however many sessions poll it.
C17_AcceptNeverWaits ==
    /\ [][ \A s \in Sessions :
              (pc[s] = "pending" /\ pc'[s] \notin {"pending", "idle"}) =>
                  /\ pc'[s] = "lock"
                  /\ serverPc = "accepting" /\ serverPc' = "accepting"
                  /\ UNCHANGED <<pool, lock, held, wire, statVars>>
                  /\ \A t \in Sessions \ {s} : pc'[t] = pc[t] ]_vars
    /\ [](serverPc = "accepting" =>
               /\ \A s \in Sessions : pc[s] = "pending" => ENABLED ServerAccept(s)
               /\ cancelled => ENABLED ServerCancelled)

\* a connection has just been accepted while another session sleeps on the
\* empty pool and every database is out
C17_Witness ==
    /\ serverPc = "accepting"
    /\ pool = <<>>
    /\ peak = NumDbs
    /\ \E s, t \in Sessions : pc[s] = "sleep" /\ pc[t] = "lock" /\ conn[t] = "open"

\* ---- C18 ----------------------------------------------------------------
\* every construction task has pushed its database
AllBuilt == \A n \in Indices : buildPc[n] = "done"

\* C18 (the pool is complete before any session sees it): build_databases
\* returns only when every construction task is over; the socket is bound
\* with all N databases in the pool; nothing is pushed by a construction
\* task afterwards; and whenever a connection exists or a session polls the
\* pool, the pool has been completed.
C18_PoolComplete ==
    /\ [](Started => AllBuilt)
    /\ [][ (sockPath # "socket" /\ sockPath' = "socket") =>
               (AllBuilt /\ Len(pool) = NumDbs /\ Range(pool) = Original) ]_vars
    /\ [][ Started => buildPc' = buildPc ]_vars
    /\ []((serverPc # "none" \/ \E s \in Sessions : pc[s] # "idle") =>
               (AllBuilt /\ Started))
    /\ [][ \A s \in Sessions :
              (pc[s] = "lock" /\ pc'[s] # "lock" /\ usage = 0 /\ peak = 0) =>
                  (Len(pool) = NumDbs /\ pc'[s] = "inc") ]_vars

\* the first session has polled the pool and taken one of its N databases
C18_Witness ==
    /\ usage = 0 /\ peak = 0
    /\ Len(pool) = NumDbs - 1
    /\ \E s \in Sessions : pc[s] = "inc" /\ held[s] # None

\* ---- C19 ----------------------------------------------------------------
\* the session is inside the critical section of the pool lock
InCritical(s) == pc[s] \in {"inc", "dec"}

\* C19 (the lock is held only for one mutation): the lock is held exactly by
\* a session that has just popped or pushed and is about to update the
\* counter, never by one that sleeps, writes, reads or waits; at most one
\* session is in the critical section; a held lock is eventually free, and a
\* session that waits for the lock eventually gets it.
C19_LockDiscipline ==
    /\ [](\A s \in Sessions : lock = s <=> InCritical(s))
    /\ [](Cardinality({s \in Sessions : InCritical(s)}) <= 1)
    /\ (lock # NoTask) ~> (lock = NoTask)
    /\ \A s \in Sessions : (pc[s] = "lock") ~> (pc[s] \in {"inc", "sleep"})
    /\ \A s \in Sessions : (pc[s] = "relock") ~> (pc[s] = "dec")

\* a session that has seen end-of-stream waits for the lock another session
\* holds after its pop
C19_Witness ==
    \E s, t \in Sessions : pc[s] = "relock" /\ lock = t /\ pc[t] = "inc"

\* ---- C20 ----------------------------------------------------------------
\* C20 (peak usage): PEAK_USAGE is the running maximum of USAGE: after every
\* step it is the larger of its old value and the new USAGE; it never
\* decreases, is never below USAGE and never above the pool size.
C20_PeakUsage ==
    /\ [][ peak' = IF usage' > peak THEN usage' ELSE peak ]_vars
    /\ [][ peak' >= peak ]_vars
    /\ [](usage <= peak /\ peak <= NumDbs)

\* every database has been leased at once and one lease is over
C20_Witness ==
    /\ peak = NumDbs
    /\ usage = NumDbs - 1
    /\ Len(pool) = 1

\* ---- C21 ----------------------------------------------------------------
\* C21 as claimed: for every session waiting on the empty pool, if from then
\* on every session that holds a database eventually sees its client's
\* end-of-stream (so that databases come back to the pool again and again),
\* that waiting session eventually takes a database.
C21_NoWaiterStarves ==
    \A s \in Sessions :
        []((Waiting(s) /\ pool = <<>>) =>
              (([](\A t \in Sessions : held[t] # None => <>(pc[t] = "relock"))
                   /\ []<>(\E t \in Sessions : pc[t] = "relock"))
                  => <>(pc[s] = "inc")))

\* C21 (no database idles past a waiter), amended: a waiting session that
\* finds a database in the pool at its poll takes it: whenever the pool is
\* not empty, every waiting session eventually takes a database unless the
\* pool has been emptied first by other sessions taking what was released.
C21_WaiterTakesWhatIsLeft ==
    \A s \in Sessions :
        (Waiting(s) /\ pool # <<>>) ~> (pc[s] = "inc" \/ pool = <<>>)

\* a database was released while one session sleeps on the pool and another
\* session, accepted later, is about to poll it
C21_Witness ==
    \E s, t \in Sessions :
        /\ s # t
        /\ pc[s] = "sleep" /\ pc[t] = "lock"
        /\ Len(pool) = 1
        /\ usage = NumDbs - 1 /\ peak = NumDbs

\* ---- C22 ----------------------------------------------------------------
\* C22 (counter and pool agree): once the pool is built, whenever the pool
\* lock is free USAGE plus the number of databases in the pool is N; USAGE
\* stays within 0..N, so it never wraps below zero.
C22_CounterConsistency ==
    /\ (Started /\ lock = NoTask) => usage + Len(pool) = NumDbs
    /\ usage \in 0..NumDbs
    /\ usage # UsizeMax

\* the lock is free after every database was leased and one came back,
\* while a session still holds one
C22_Witness ==
    /\ lock = NoTask
    /\ usage = NumDbs - 1
    /\ peak = NumDbs
    /\ Len(pool) = 1
    /\ \E s \in Sessions : pc[s] = "read" /\ held[s] # None

\* ---- C23 ----------------------------------------------------------------
\* the session sleeps after a poll of the empty pool and its client is gone
GaveUpWaiting(s) == pc[s] = "sleep" /\ conn[s] = "closed" /\ pool = <<>>

\* the session has just popped a database for a client that is gone
TookForGone(s) == pc[s] = "inc" /\ conn[s] = "closed"

\* C23 (a client that gives up does not strand a database): a session whose
\* client closed while it polls the empty pool keeps polling; when it then
\* takes a database for the client that is gone, that database is
\* eventually back in the pool.
C23_GivenUpReturns ==
    /\ [][ \A s \in Sessions :
              (Waiting(s) /\ conn[s] = "closed") =>
                  (pc'[s] \in {"lock", "sleep", "inc"} /\ conn'[s] = "closed") ]_vars
    /\ \A s \in Sessions : \A r \in Original :
          [](GaveUpWaiting(s) =>
                [](TookForGone(s) /\ held[s] = r => <>(r \in Range(pool))))

\* ---- C24 ----------------------------------------------------------------
\* C24 (every command shuts the broker down before it returns): when serve,
\* wrap or wrap_each has returned, the token has been cancelled, the
\* accept-loop task has finished and the socket file is removed.
C24_ShutdownBeforeReturn ==
    cmdPc = "returned" =>
        /\ cancelled
        /\ serverPc = "finished"
        /\ sockPath = "absent"

\* ---- C25 ----------------------------------------------------------------
\* the environment invocation k of wrap_each is to receive
PairedEnv(k) == [PGDATABASE |-> DbName(Prefix, k), PGM_DATABASE_SHARD |-> ToString(k)]

\* every database name is given to at most one invocation
NamesUsedOnce ==
    \A i, j \in 1..Len(envs) : i # j => envs[i].PGDATABASE # envs[j].PGDATABASE

\* an invocation starts only when every earlier one has exited
OneAtATime ==
    Len(envs) = IF cmdPc = "running" THEN Len(statuses) + 1 ELSE Len(statuses)

\* C25 (wrap_each environment pairing): invocation k receives
\* PGM_DATABASE_SHARD = k together with PGDATABASE = prefix followed by k,
\* every database name is used by at most one invocation, and invocation
\* k+1 starts only after invocation k has exited.
C25_EnvPairing ==
    /\ \A k \in 0..(Len(envs) - 1) : envs[k + 1] = PairedEnv(k)
    /\ NamesUsedOnce
    /\ OneAtATime

====
